---------------------------- MODULE Spec2Model ----------------------------
(***************************************************************************)
(* A model of tb/lint/lint_opq.py: target discovery (_iter_targets with    *)
(* its nested is_ignored), the per-file checks (_check_newline_and_crlf,   *)
(* _check_trailing_whitespace, _check_vhdl_header, _check_vhdl_proc_doc)   *)
(* and the aggregation and reporting of main().                            *)
(*                                                                         *)
(* Path segments and message texts are strings; file contents are          *)
(* sequences of bytes (0..255) and decoded texts are sequences of code     *)
(* points, so that decoding, line splitting, substring search and the      *)
(* process regular expression are computed rather than assumed.            *)
(***************************************************************************)
EXTENDS Integers, Sequences, FiniteSets, TLC

VARIABLES
    repo_root,  \* segments of the directory lint_dir.parents[2]
    tree,       \* the file system below repo_root, in enumeration order
    pc,         \* position of the run
    targets,    \* main: the list returned by _iter_targets
    idx,        \* main: number of targets already checked
    errs,       \* main: the findings collected so far
    reads,      \* main: the paths whose bytes were read, in order
    stdout,     \* main: lines printed to standard output
    stderr,     \* main: lines printed to standard error
    exit,       \* main: the value returned, -1 while running
    file,       \* the single (path, data) a per-file check is applied to
    res         \* the results of the per-file checks applied to `file`

vars == <<repo_root, tree, pc, targets, idx, errs, reads, stdout, stderr, exit, file, res>>

---------------------------------------------------------------------------
(* Characters, strings and byte strings.                                   *)

\* The printable ASCII characters in code order: 32 (space) to 95 (_), and
\* 97 (a) to 126 (~).  Code 96 cannot be written in a string of this
\* language and occurs in no literal of the program.
PrintableLow == " !\"#$%&'()*+,-./0123456789:;<=>?@ABCDEFGHIJKLMNOPQRSTUVWXYZ[\\]^_"
PrintableHigh == "abcdefghijklmnopqrstuvwxyz{|}~"

\* The code of each printable character.
OrdTable ==
    [c \in {SubSeq(PrintableLow, i, i) : i \in 1..Len(PrintableLow)}
            \cup {SubSeq(PrintableHigh, i, i) : i \in 1..Len(PrintableHigh)} |->
        IF \E i \in 1..Len(PrintableLow) : SubSeq(PrintableLow, i, i) = c
        THEN 31 + (CHOOSE i \in 1..Len(PrintableLow) : SubSeq(PrintableLow, i, i) = c)
        ELSE 96 + (CHOOSE i \in 1..Len(PrintableHigh) : SubSeq(PrintableHigh, i, i) = c)]

\* ord(c) of a one-character string.
Ord(c) == OrdTable[c]

\* chr(n) for a printable code.
Chr(n) ==
    IF n <= 95 THEN SubSeq(PrintableLow, n - 31, n - 31)
    ELSE SubSeq(PrintableHigh, n - 96, n - 96)

\* s[i] of a string, as a one-character string.
CharAt(s, i) == SubSeq(s, i, i)

\* str.encode of an ASCII string: its bytes.
Bytes(s) == [i \in 1..Len(s) |-> Ord(CharAt(s, i))]

Min(a, b) == IF a < b THEN a ELSE b
Max(a, b) == IF a > b THEN a ELSE b

\* str.lower of one ASCII character.
LowerChar(c) == IF Ord(c) >= 65 /\ Ord(c) <= 90 THEN Chr(Ord(c) + 32) ELSE c

\* str.lower of an ASCII string.
RECURSIVE Lower(_)
Lower(s) ==
    IF Len(s) = 0 THEN s
    ELSE LowerChar(CharAt(s, 1)) \o Lower(SubSeq(s, 2, Len(s)))

\* s.startswith(p) and s.endswith(p); on strings and on sequences alike.
StartsWith(s, p) == Len(p) <= Len(s) /\ SubSeq(s, 1, Len(p)) = p
EndsWith(s, p) == Len(p) <= Len(s) /\ SubSeq(s, Len(s) - Len(p) + 1, Len(s)) = p

\* `p in s`: substring (or sub-sequence of consecutive elements) search.
Contains(s, p) ==
    \E i \in 1..(Len(s) - Len(p) + 1) : SubSeq(s, i, i + Len(p) - 1) = p

\* a < b for strings, by code point, as str.__lt__ compares.
StrLess(a, b) ==
    \E k \in 1..(Min(Len(a), Len(b)) + 1) :
        /\ SubSeq(a, 1, k - 1) = SubSeq(b, 1, k - 1)
        /\ \/ k > Len(a) /\ k <= Len(b)
           \/ k <= Len(a) /\ k <= Len(b) /\ Ord(CharAt(a, k)) < Ord(CharAt(b, k))

\* The elements of a set of integers within lo..hi, in increasing order.
RECURSIVE SortedIn(_, _, _)
SortedIn(S, lo, hi) ==
    IF lo > hi THEN <<>>
    ELSE IF lo = hi THEN (IF lo \in S THEN <<lo>> ELSE <<>>)
    ELSE LET mid == (lo + hi) \div 2
         IN  SortedIn(S, lo, mid) \o SortedIn(S, mid + 1, hi)

Range(s) == {s[i] : i \in 1..Len(s)}

---------------------------------------------------------------------------
(* Paths.  A path is the sequence of its segments below the anchor "/".    *)

\* Path.parts of an absolute path: the anchor, then the segments.
Parts(p) == <<"/">> \o p

\* Path.name: the last segment.
Name(p) == IF Len(p) = 0 THEN "" ELSE p[Len(p)]

\* str(path): the segments joined by "/" behind the anchor.
RECURSIVE PathStr(_)
PathStr(p) ==
    IF Len(p) = 0 THEN "/"
    ELSE IF Len(p) = 1 THEN "/" \o p[1]
    ELSE PathStr(SubSeq(p, 1, Len(p) - 1)) \o "/" \o p[Len(p)]

\* Path.suffix: the name from its last dot on, unless that dot is the
\* first or the last character of the name.
Suffix(p) ==
    LET name == Name(p)
        dots == {i \in 1..Len(name) : CharAt(name, i) = "."}
    IN  IF dots = {} THEN ""
        ELSE LET i == CHOOSE d \in dots : \A e \in dots : e <= d
             IN  IF 1 < i /\ i < Len(name) THEN SubSeq(name, i, Len(name)) ELSE ""

\* Path.__lt__: the parts compared as sequences, each part as a string.
PathLess(p, q) ==
    \E k \in 1..(Min(Len(p), Len(q)) + 1) :
        /\ SubSeq(p, 1, k - 1) = SubSeq(q, 1, k - 1)
        /\ \/ k > Len(p) /\ k <= Len(q)
           \/ k <= Len(p) /\ k <= Len(q) /\ StrLess(p[k], q[k])

\* sorted(set(out)) for paths.
SortedPaths(S) ==
    [i \in 1..Cardinality(S) |->
        CHOOSE p \in S : Cardinality({q \in S : PathLess(q, p)}) = i - 1]

\* p is root itself or lies below it.
IsPrefix(root, p) == Len(root) <= Len(p) /\ SubSeq(p, 1, Len(root)) = root

---------------------------------------------------------------------------
(* The file system: `fs` lists the entries below `base` in the order the   *)
(* operating system enumerates them.  An entry is a record                 *)
(* [path |-> segments below base, kind |-> "file" or "dir", data |-> bytes]*)

\* Path.exists(): some entry is the path or lies below it.
Exists(base, fs, p) == \E i \in 1..Len(fs) : IsPrefix(p, base \o fs[i].path)

\* Path.is_file()
IsFile(base, fs, p) ==
    \E i \in 1..Len(fs) : base \o fs[i].path = p /\ fs[i].kind = "file"

\* root.rglob("*"): the entries strictly below root, as absolute paths, in
\* enumeration order.  (Directories implied by a deeper entry are not
\* listed: a directory is never a regular file, so it is never selected.)
RGlob(base, fs, root) ==
    LET below(e) == IsPrefix(root, base \o e.path) /\ base \o e.path # root
        sel == SelectSeq(fs, below)
    IN  [i \in 1..Len(sel) |-> base \o sel[i].path]

\* Path.read_bytes()
ReadBytes(base, fs, p) ==
    (CHOOSE e \in Range(fs) : base \o e.path = p /\ e.kind = "file").data

---------------------------------------------------------------------------
(* Target discovery.                                                       *)

is_text_ext(path) ==
    LET name == Lower(Name(path))
    IN  \E ext \in {".vhd", ".terp.vhd", ".sv", ".v"} : EndsWith(name, ext)

\* is_ignored without the generated-directory literal names.
is_ignored_no_literal_names(p) ==
    LET parts == Range(Parts(p))
    IN  \/ "trash_bin" \in parts
        \/ /\ "packet_scheduler" \in parts
           /\ "tb" \in parts
           /\ Name(p) \in {"ordered_priority_queue.vhd", "ordered_priority_queue_wrapper.vhd"}
        \/ \E part \in parts : StartsWith(part, "work_uvm_")
        \/ \E part \in parts : StartsWith(part, "work_")
        \/ "uvm_patched" \in parts
        \/ ".git" \in parts
        \/ ".qsys_edit" \in parts

is_ignored(p) ==
    LET parts == Range(Parts(p))
    IN  \/ "trash_bin" \in parts
        \/ /\ "packet_scheduler" \in parts
           /\ "tb" \in parts
           /\ Name(p) \in {"ordered_priority_queue.vhd", "ordered_priority_queue_wrapper.vhd"}
        \/ \E part \in parts : StartsWith(part, "work_uvm_")
        \/ \E part \in parts : part \in {"work", "rtl_gen_split", "rtl_gen_monolithic"}
        \/ \E part \in parts : StartsWith(part, "work_")
        \/ "uvm_patched" \in parts
        \/ ".git" \in parts
        \/ ".qsys_edit" \in parts

\* The five roots, in the order the program scans them.
Roots(base) ==
    LET pkt_sched == base \o <<"packet_scheduler">>
        uvm_root_dir == base \o <<"uvm_order_priority_queue">>
    IN  << pkt_sched \o <<"rtl">>,
           pkt_sched \o <<"tb">>,
           pkt_sched \o <<"uvm">>,
           uvm_root_dir \o <<"tb">>,
           uvm_root_dir \o <<"rtl_overrides">> >>

\* The list `out` after the loops over the roots numbered k and above.
RECURSIVE Collect(_, _, _)
Collect(base, fs, k) ==
    IF k > Len(Roots(base)) THEN <<>>
    ELSE LET root == Roots(base)[k]
             keep(p) == ~is_ignored(p) /\ IsFile(base, fs, p) /\ is_text_ext(p)
         IN  (IF Exists(base, fs, root)
              THEN SelectSeq(RGlob(base, fs, root), keep)
              ELSE <<>>) \o Collect(base, fs, k + 1)

\* The first occurrences of the elements of a sequence, in order.
Dedup(s) ==
    LET first == {i \in 1..Len(s) : \A j \in 1..(i - 1) : s[j] # s[i]}
        at == SortedIn(first, 1, Len(s))
    IN  [i \in 1..Len(at) |-> s[at[i]]]

\* _iter_targets returning set(out) in enumeration order, unsorted.
iter_targets_unsorted(base, fs) == Dedup(Collect(base, fs, 1))

iter_targets(base, fs) == SortedPaths(Range(Collect(base, fs, 1)))

---------------------------------------------------------------------------
(* Bytes and text.                                                         *)

LF == 10
CR == 13

\* A UTF-8 continuation byte.
IsCont(b) == b >= 128 /\ b <= 191

\* The length of the UTF-8 sequence a byte opens; 0 if it opens none.
SeqLen(b) ==
    IF b < 128 THEN 1
    ELSE IF b >= 194 /\ b <= 223 THEN 2
    ELSE IF b >= 224 /\ b <= 239 THEN 3
    ELSE IF b >= 240 /\ b <= 244 THEN 4
    ELSE 0

\* The byte at i opens a well-formed sequence that ends at a sequence
\* boundary: continuation bytes follow in the number required, the second
\* byte excludes overlong forms, surrogates and values above U+10FFFF.
WellFormedAt(data, i) ==
    LET b == data[i]
        n == SeqLen(b)
    IN  /\ n > 0
        /\ i + n - 1 <= Len(data)
        /\ \A j \in (i + 1)..(i + n - 1) : IsCont(data[j])
        /\ b = 224 => data[i + 1] >= 160
        /\ b = 237 => data[i + 1] <= 159
        /\ b = 240 => data[i + 1] >= 144
        /\ b = 244 => data[i + 1] <= 143
        /\ i + n <= Len(data) => ~IsCont(data[i + n])

\* data.decode("utf-8") raises UnicodeDecodeError.
DecodeFails(data) ==
    \/ Len(data) > 0 /\ IsCont(data[1])
    \/ \E i \in 1..Len(data) : ~IsCont(data[i]) /\ ~WellFormedAt(data, i)

\* The code point of the sequence opened at i.
CodePointAt(data, i) ==
    LET b == data[i]
        n == SeqLen(b)
    IN  IF n = 1 THEN b
        ELSE IF n = 2 THEN (b - 192) * 64 + (data[i + 1] - 128)
        ELSE IF n = 3 THEN (b - 224) * 4096 + (data[i + 1] - 128) * 64 + (data[i + 2] - 128)
        ELSE (b - 240) * 262144 + (data[i + 1] - 128) * 4096
               + (data[i + 2] - 128) * 64 + (data[i + 3] - 128)

\* data.decode("utf-8") of well-formed data: its code points.
Decode(data) ==
    LET at == SortedIn({i \in 1..Len(data) : ~IsCont(data[i])}, 1, Len(data))
    IN  [k \in 1..Len(at) |-> CodePointAt(data, at[k])]

\* The code points str.splitlines() breaks a line at.
IsLineBreak(c) == c \in {10, 11, 12, 13, 28, 29, 30, 133, 8232, 8233}

\* str.splitlines(): the lines without their terminators; "\r\n" is one
\* terminator; no empty last line after a final terminator.
SplitLines(text) ==
    LET n == Len(text)
        \* positions of the last character of each terminator
        ends == SortedIn({i \in 1..n :
                            /\ IsLineBreak(text[i])
                            /\ ~(text[i] = CR /\ i < n /\ text[i + 1] = LF)},
                         1, n)
        count == IF n = 0 THEN 0
                 ELSE IF Len(ends) > 0 /\ ends[Len(ends)] = n THEN Len(ends)
                 ELSE Len(ends) + 1
        start(k) == IF k = 1 THEN 1 ELSE ends[k - 1] + 1
        stop(k) ==
            IF k > Len(ends) THEN n
            ELSE LET e == ends[k]
                 IN  IF text[e] = LF /\ e > 1 /\ text[e - 1] = CR /\ e - 1 >= start(k)
                     THEN e - 2 ELSE e - 1
    IN  [k \in 1..count |-> SubSeq(text, start(k), stop(k))]

\* "\n".join(lines[lo-1:hi]) for 1 <= lo, hi <= len(lines)
RECURSIVE JoinLines(_, _, _)
JoinLines(lines, lo, hi) ==
    IF lo > hi THEN <<>>
    ELSE IF lo = hi THEN lines[lo]
    ELSE LET mid == (lo + hi) \div 2
         IN  JoinLines(lines, lo, mid) \o <<LF>> \o JoinLines(lines, mid + 1, hi)

\* The string of a sequence of printable ASCII codes.
RECURSIVE Str(_)
Str(codes) ==
    IF Len(codes) = 0 THEN ""
    ELSE Chr(codes[1]) \o Str(SubSeq(codes, 2, Len(codes)))

LintError(path, line, msg) == [path |-> path, line |-> line, msg |-> msg]

---------------------------------------------------------------------------
(* The per-file checks.                                                    *)

MsgCrlf == "CRLF/CR characters found (use LF only)"
MsgNoNewline == "Missing trailing newline at EOF"
MsgNotUtf8 == "File is not valid UTF-8"
MsgTrailing == "Trailing whitespace"
Delimiter ==
    "-- ------------------------------------------------------------------------------------------------------------"
MsgDelimiter == "Missing top-of-file delimiter line \"" \o Delimiter \o "\""
MsgField(f) == "Missing header field \"" \o f \o "\" in top-of-file comment block"
MsgProc(name, tag) == name \o " missing preceding \"" \o tag \o "\" block"

\* The header fields, in the order the header check looks for them.
HeaderFields == <<"IP Name:", "Author:", "Revision:", "Description:">>

\* The number of leading lines the header check searches.
HeadLines == 80

\* The number of lines the process-documentation check looks back over.
lookback_lines == 400

\* The check reporting every carriage return byte.
check_newline_and_crlf_per_byte(path, data) ==
    LET crs == SortedIn({i \in 1..Len(data) : data[i] = CR}, 1, Len(data))
    IN  [k \in 1..Len(crs) |-> LintError(path, 1, MsgCrlf)]
        \o (IF Len(data) > 0 /\ data[Len(data)] # LF
            THEN <<LintError(path, 1, MsgNoNewline)>> ELSE <<>>)

check_newline_and_crlf(path, data) ==
    (IF CR \in Range(data) THEN <<LintError(path, 1, MsgCrlf)>> ELSE <<>>)
    \o (IF Len(data) > 0 /\ data[Len(data)] # LF
        THEN <<LintError(path, 1, MsgNoNewline)>> ELSE <<>>)

\* line.endswith(" ") or line.endswith("\t"): codes 32 and 9.
check_trailing_whitespace(path, text) ==
    LET lines == SplitLines(text)
        bad == SortedIn({i \in 1..Len(lines) :
                            \/ EndsWith(lines[i], <<32>>)
                            \/ EndsWith(lines[i], <<9>>)},
                        1, Len(lines))
    IN  [k \in 1..Len(bad) |-> LintError(path, bad[k], MsgTrailing)]

\* The early returns the header check and the process-documentation check
\* share: the file type and the three path fragments.
skipped_by_type_or_location(path) ==
    \/ Lower(Suffix(path)) # ".vhd" /\ ~EndsWith(Lower(Name(path)), ".terp.vhd")
    \/ Contains(PathStr(path), "/packet_scheduler/tb/")
    \/ Contains(PathStr(path), "/packet_scheduler/uvm/")
    \/ Contains(PathStr(path), "/uvm_order_priority_queue/tb/")

\* All early returns of _check_vhdl_header.
header_skipped(path) ==
    \/ skipped_by_type_or_location(path)
    \/ Name(path) \in {"ordered_priority_queue_top.vhd"}

\* The findings of the header check over the first n lines.
header_errs(path, text, n) ==
    LET lines == SplitLines(text)
        head == JoinLines(lines, 1, Min(n, Len(lines)))
        field(k) == IF Contains(head, Bytes(HeaderFields[k])) THEN <<>>
                    ELSE <<LintError(path, 1, MsgField(HeaderFields[k]))>>
    IN  (IF StartsWith(text, Bytes(Delimiter)) THEN <<>>
         ELSE <<LintError(path, 1, MsgDelimiter)>>)
        \o field(1) \o field(2) \o field(3) \o field(4)

\* The header check searching the whole text for the fields.
check_vhdl_header_whole_text(path, text) ==
    IF header_skipped(path) THEN <<>> ELSE header_errs(path, text, Len(text))

check_vhdl_header(path, text) ==
    IF header_skipped(path) THEN <<>> ELSE header_errs(path, text, HeadLines)

\* The early returns of the header check, allow-list included.
proc_doc_skipped_as_header(path) == header_skipped(path)

\* All early returns of _check_vhdl_proc_doc.
proc_doc_skipped(path) == skipped_by_type_or_location(path)

\* Character classes of the process pattern, on the code points the model
\* draws: ASCII and Latin-1 exactly; the letters IGNORECASE adds to [A-Za-z]
\* (U+0130, U+0131, U+017F, U+212A) are not drawn.
IsSpace(c) ==
    \/ c \in {9, 10, 11, 12, 13, 28, 29, 30, 31, 32, 133, 160, 5760}
    \/ c >= 8192 /\ c <= 8202
    \/ c \in {8232, 8233, 8239, 8287, 12288}
IsIdent(c) ==
    \/ c >= 48 /\ c <= 57
    \/ c >= 65 /\ c <= 90
    \/ c >= 97 /\ c <= 122
    \/ c = 95
IsWord(c) ==
    \/ IsIdent(c)
    \/ c \in {170, 178, 179, 181, 185, 186, 188, 189, 190}
    \/ c >= 192 /\ c <= 255 /\ c \notin {215, 247}
LowerCode(c) == IF c >= 65 /\ c <= 90 THEN c + 32 ELSE c

\* The least position at or after `from` whose code point is outside the
\* class; one past the end if there is none.
SkipSpace(line, from) ==
    LET S == {i \in from..Len(line) : ~IsSpace(line[i])}
    IN  IF S = {} THEN Max(from, Len(line) + 1) ELSE CHOOSE i \in S : \A j \in S : i <= j
SkipIdent(line, from) ==
    LET S == {i \in from..Len(line) : ~IsIdent(line[i])}
    IN  IF S = {} THEN Max(from, Len(line) + 1) ELSE CHOOSE i \in S : \A j \in S : i <= j

\* The word is at position i of the line, letter case ignored.
WordAt(line, i, word) ==
    /\ i + Len(word) - 1 <= Len(line)
    /\ \A k \in 1..Len(word) : LowerCode(line[i + k - 1]) = Ord(CharAt(word, k))

\* proc_re.match(line) for ^\s*(proc_[A-Za-z0-9_]+)\s*:\s*process\b with
\* IGNORECASE: [matched |-> whether it matches, name |-> group 1].
ProcMatch(line) ==
    LET a == SkipSpace(line, 1)
        b == SkipIdent(line, a + 5)
        c == SkipSpace(line, b)
        d == SkipSpace(line, c + 1)
        ok == /\ WordAt(line, a, "proc_")
              /\ b > a + 5
              /\ c <= Len(line) /\ line[c] = Ord(":")
              /\ WordAt(line, d, "process")
              /\ (d + 7 <= Len(line) => ~IsWord(line[d + 7]))
    IN  [matched |-> ok, name |-> IF ok THEN SubSeq(line, a, b - 1) ELSE <<>>]

\* The findings for a declaration matched at line idx, looking back over
\* the slice lines[max(0, idx - back) : idx].
ProcDocAt(path, lines, i, back) ==
    LET m == ProcMatch(lines[i])
        lookback == JoinLines(lines, Max(0, i - back) + 1, i)
        miss(tag) == IF Contains(lookback, Bytes(tag)) THEN <<>>
                     ELSE <<LintError(path, i, MsgProc(Str(m.name), tag))>>
    IN  IF m.matched THEN miss("-- @name") \o miss("-- @brief") ELSE <<>>

\* The findings for the lines numbered lo..hi, in line order.
RECURSIVE ProcDocRange(_, _, _, _, _)
ProcDocRange(path, lines, lo, hi, back) ==
    IF lo > hi THEN <<>>
    ELSE IF lo = hi THEN ProcDocAt(path, lines, lo, back)
    ELSE LET mid == (lo + hi) \div 2
         IN  ProcDocRange(path, lines, lo, mid, back)
             \o ProcDocRange(path, lines, mid + 1, hi, back)

\* _check_vhdl_proc_doc.
check_vhdl_proc_doc(path, text) ==
    IF proc_doc_skipped(path) THEN <<>>
    ELSE LET lines == SplitLines(text)
         IN  ProcDocRange(path, lines, 1, Len(lines), lookback_lines)

---------------------------------------------------------------------------
(* main(): discovery, the loop over the targets, the report.               *)

\* The number of findings the failure report lists.
ReportCap == 200

\* str(n) of a natural number.
RECURSIVE IntStr(_)
IntStr(n) ==
    IF n < 10 THEN Chr(48 + n)
    ELSE IntStr(n \div 10) \o Chr(48 + (n % 10))

\* f"{e.path}:{e.line}: {e.msg}"
Render(e) == PathStr(e.path) \o ":" \o IntStr(e.line) \o ": " \o e.msg

\* The failure report that prints its remainder line from the cap on.
FailReportMoreAtCap(es) ==
    <<"opq_lint: FAIL\n">>
    \o [i \in 1..Min(ReportCap, Len(es)) |-> Render(es[i])]
    \o (IF Len(es) >= ReportCap
        THEN <<"... and " \o IntStr(Len(es) - ReportCap) \o " more">>
        ELSE <<>>)

\* The lines main prints to standard error for a non-empty list of findings.
FailReport(es) ==
    <<"opq_lint: FAIL\n">>
    \o [i \in 1..Min(ReportCap, Len(es)) |-> Render(es[i])]
    \o (IF Len(es) > ReportCap
        THEN <<"... and " \o IntStr(Len(es) - ReportCap) \o " more">>
        ELSE <<>>)

PassLine(n) == "opq_lint: PASS (" \o IntStr(n) \o " files)"

\* The findings the loop body appends for a file whose bytes decode.
TextFindings(path, data) ==
    LET text == Decode(data)
    IN  check_newline_and_crlf(path, data)
        \o check_trailing_whitespace(path, text)
        \o check_vhdl_header(path, text)
        \o check_vhdl_proc_doc(path, text)

\* The findings the loop body appends for a file whose bytes do not decode.
UndecodableFindings(path, data) ==
    check_newline_and_crlf(path, data) \o <<LintError(path, 1, MsgNotUtf8)>>

\* main without the test for an empty target list: the loop runs over
\* nothing and the run passes.
main_no_targets_unchecked ==
    /\ pc = "start"
    /\ iter_targets(repo_root, tree) = <<>>
    /\ targets' = <<>>
    /\ stdout' = <<PassLine(0)>>
    /\ exit' = 0
    /\ pc' = "done"
    /\ UNCHANGED <<repo_root, tree, idx, errs, reads, stderr, file, res>>

\* targets = _iter_targets(lint_dir); if not targets: ... return 2
main_no_targets ==
    /\ pc = "start"
    /\ iter_targets(repo_root, tree) = <<>>
    /\ targets' = <<>>
    /\ stderr' = <<"opq_lint: no targets found">>
    /\ exit' = 2
    /\ pc' = "done"
    /\ UNCHANGED <<repo_root, tree, idx, errs, reads, stdout, file, res>>

\* targets = _iter_targets(lint_dir), not empty
main_discover ==
    /\ pc = "start"
    /\ iter_targets(repo_root, tree) # <<>>
    /\ targets' = iter_targets(repo_root, tree)
    /\ pc' = "check"
    /\ UNCHANGED <<repo_root, tree, idx, errs, reads, stdout, stderr, exit, file, res>>

\* The loop body with the header check ahead of the whitespace check.
main_check_text_reordered ==
    /\ pc = "check"
    /\ idx < Len(targets)
    /\ LET path == targets[idx + 1]
           data == ReadBytes(repo_root, tree, path)
           text == Decode(data)
       IN  /\ ~DecodeFails(data)
           /\ reads' = Append(reads, path)
           /\ errs' = errs \o check_newline_and_crlf(path, data)
                           \o check_vhdl_header(path, text)
                           \o check_trailing_whitespace(path, text)
                           \o check_vhdl_proc_doc(path, text)
    /\ idx' = idx + 1
    /\ UNCHANGED <<repo_root, tree, pc, targets, stdout, stderr, exit, file, res>>

\* One pass of the loop body for a target whose bytes decode.
main_check_text ==
    /\ pc = "check"
    /\ idx < Len(targets)
    /\ LET path == targets[idx + 1]
           data == ReadBytes(repo_root, tree, path)
       IN  /\ ~DecodeFails(data)
           /\ reads' = Append(reads, path)
           /\ errs' = errs \o TextFindings(path, data)
    /\ idx' = idx + 1
    /\ UNCHANGED <<repo_root, tree, pc, targets, stdout, stderr, exit, file, res>>

\* The loop body leaving the loop at a file that does not decode.
main_check_undecodable_break ==
    /\ pc = "check"
    /\ idx < Len(targets)
    /\ LET path == targets[idx + 1]
           data == ReadBytes(repo_root, tree, path)
       IN  /\ DecodeFails(data)
           /\ reads' = Append(reads, path)
           /\ errs' = errs \o UndecodableFindings(path, data)
    /\ idx' = Len(targets)
    /\ UNCHANGED <<repo_root, tree, pc, targets, stdout, stderr, exit, file, res>>

\* One pass of the loop body for a target whose bytes do not decode:
\* the except branch, then continue.
main_check_undecodable ==
    /\ pc = "check"
    /\ idx < Len(targets)
    /\ LET path == targets[idx + 1]
           data == ReadBytes(repo_root, tree, path)
       IN  /\ DecodeFails(data)
           /\ reads' = Append(reads, path)
           /\ errs' = errs \o UndecodableFindings(path, data)
    /\ idx' = idx + 1
    /\ UNCHANGED <<repo_root, tree, pc, targets, stdout, stderr, exit, file, res>>

\* if errs: ... return 1
main_fail ==
    /\ pc = "check"
    /\ idx = Len(targets)
    /\ errs # <<>>
    /\ stderr' = FailReport(errs)
    /\ exit' = 1
    /\ pc' = "done"
    /\ UNCHANGED <<repo_root, tree, targets, idx, errs, reads, stdout, file, res>>

\* print PASS; return 0
main_pass ==
    /\ pc = "check"
    /\ idx = Len(targets)
    /\ errs = <<>>
    /\ stdout' = <<PassLine(Len(targets))>>
    /\ exit' = 0
    /\ pc' = "done"
    /\ UNCHANGED <<repo_root, tree, targets, idx, errs, reads, stderr, file, res>>

---------------------------------------------------------------------------
(* The per-file checks applied to one file, in the order of the loop body. *)

file_newline ==
    /\ pc = "f_start"
    /\ res' = [res EXCEPT !.nl = check_newline_and_crlf(file.path, file.data)]
    /\ pc' = "f_nl"
    /\ UNCHANGED <<repo_root, tree, targets, idx, errs, reads, stdout, stderr, exit, file>>

file_decode ==
    /\ pc = "f_nl"
    /\ ~DecodeFails(file.data)
    /\ res' = [res EXCEPT !.ok = TRUE]
    /\ pc' = "f_text"
    /\ UNCHANGED <<repo_root, tree, targets, idx, errs, reads, stdout, stderr, exit, file>>

file_decode_error ==
    /\ pc = "f_nl"
    /\ DecodeFails(file.data)
    /\ res' = [res EXCEPT !.ok = FALSE]
    /\ pc' = "f_done"
    /\ UNCHANGED <<repo_root, tree, targets, idx, errs, reads, stdout, stderr, exit, file>>

file_trailing_whitespace ==
    /\ pc = "f_text"
    /\ res' = [res EXCEPT !.ws = check_trailing_whitespace(file.path, Decode(file.data))]
    /\ pc' = "f_ws"
    /\ UNCHANGED <<repo_root, tree, targets, idx, errs, reads, stdout, stderr, exit, file>>

file_vhdl_header ==
    /\ pc = "f_ws"
    /\ res' = [res EXCEPT !.hdr = check_vhdl_header(file.path, Decode(file.data))]
    /\ pc' = "f_hdr"
    /\ UNCHANGED <<repo_root, tree, targets, idx, errs, reads, stdout, stderr, exit, file>>

file_vhdl_proc_doc ==
    /\ pc = "f_hdr"
    /\ res' = [res EXCEPT !.doc = check_vhdl_proc_doc(file.path, Decode(file.data))]
    /\ pc' = "f_done"
    /\ UNCHANGED <<repo_root, tree, targets, idx, errs, reads, stdout, stderr, exit, file>>

---------------------------------------------------------------------------
(* Discovery on its own, and a second discovery of the unchanged tree      *)
(* that the operating system enumerates in the opposite order.             *)

discover ==
    /\ pc = "d_start"
    /\ targets' = iter_targets(repo_root, tree)
    /\ pc' = "listed"
    /\ UNCHANGED <<repo_root, tree, idx, errs, reads, stdout, stderr, exit, file, res>>

rediscover ==
    /\ pc = "listed"
    /\ res' = iter_targets(repo_root, [i \in 1..Len(tree) |-> tree[Len(tree) + 1 - i]])
    /\ pc' = "relisted"
    /\ UNCHANGED <<repo_root, tree, targets, idx, errs, reads, stdout, stderr, exit, file>>

---------------------------------------------------------------------------
(* Inputs.                                                                 *)

\* The most files a tree of a whole run holds.
MaxFiles == 3
\* The most entries a tree of a discovery holds.
MaxEntries == 4
\* The longest byte string drawn for the line-ending check.
MaxBytes == 3

\* x repeated n times.
RECURSIVE Repeat(_, _)
Repeat(x, n) ==
    IF n <= 0 THEN <<>>
    ELSE IF n = 1 THEN x
    ELSE Repeat(x, n \div 2) \o Repeat(x, n - (n \div 2))

\* The bytes of a line of ASCII text with its line feed.
Line(s) == Bytes(s) \o <<LF>>

NoFile == [path |-> <<>>, data |-> <<>>]
NoRes == [nl |-> <<>>, ok |-> FALSE, ws |-> <<>>, hdr |-> <<>>, doc |-> <<>>]

Home == <<"home", "mu3e-ip-cores">>

\* A hand-written source without a finding.
GoodFile ==
    Line(Delimiter) \o Line("-- IP Name: opq") \o Line("-- Author: a")
    \o Line("-- Revision: 1") \o Line("-- Description: d")
    \o Line("-- @name n") \o Line("-- @brief b") \o Line("proc_a : process (clk)")

\* A carriage return, no final line feed, trailing white space, no header
\* and an undocumented process.
Messy == Bytes("x ") \o <<CR, LF>> \o Bytes("proc_a : process")

\* Trailing white space on lines 1 and 3, undocumented processes on 2 and 4.
Interleaved ==
    Line("x ") \o Line("proc_a : process") \o Bytes("y") \o <<9, LF>> \o Line("proc_b:process")

\* As many findings as the report lists.
ManyWs == Repeat(Line(" "), ReportCap)

Absent == <<-1>>

MainPaths ==
    << <<"packet_scheduler", "rtl", "work", "d.vhd">>,
       <<"packet_scheduler", "tb", "c.vhd">>,
       <<"packet_scheduler", "rtl", "b.sv">>,
       <<"packet_scheduler", "rtl", "a.vhd">> >>

MainContents(k) ==
    IF k = 1 THEN {Absent, Messy}
    ELSE {Absent, GoodFile, <<>>, Messy, <<255, CR>>, <<255, LF>>, ManyWs, Interleaved}

MainTree(f) ==
    LET entry(k) == IF f[k] = Absent THEN <<>>
                    ELSE <<[path |-> MainPaths[k], kind |-> "file", data |-> f[k]]>>
    IN  entry(1) \o entry(2) \o entry(3) \o entry(4)

MainTrees ==
    {MainTree(f) : f \in {g \in [1..4 -> MainContents(2)] :
                            /\ \A k \in 1..4 : g[k] \in MainContents(k)
                            /\ Cardinality({k \in 1..4 : g[k] # Absent}) <= MaxFiles}}

DiscRoots == {Home, <<"work", "mu3e-ip-cores">>, <<"srv", "packet_scheduler">>}

DiscFiles ==
    { <<"packet_scheduler", "rtl", "a.vhd">>,
      <<"packet_scheduler", "rtl", "a", "x.v">>,
      <<"packet_scheduler", "rtl", "B.SV">>,
      <<"packet_scheduler", "rtl", "c.terp.vhd">>,
      <<"packet_scheduler", "rtl", "d.txt">>,
      <<"packet_scheduler", "rtl", "trash_bin", "e.vhd">>,
      <<"packet_scheduler", "tb", "ordered_priority_queue.vhd">>,
      <<"packet_scheduler", "tb", "lint", "work", "f.sv">>,
      <<"packet_scheduler", "uvm", "work_uvm_1", "g.sv">>,
      <<"packet_scheduler", "uvm", "work_x.sv">>,
      <<"uvm_order_priority_queue", "tb", "rtl_gen_split", "h.vhd">>,
      <<"uvm_order_priority_queue", "tb", "rtl_gen_monolithic", "h.vhd">>,
      <<"uvm_order_priority_queue", "rtl_overrides", "uvm_patched", "i.v">>,
      <<"uvm_order_priority_queue", "rtl_overrides", ".git", "j.v">>,
      <<"uvm_order_priority_queue", "rtl_overrides", ".qsys_edit", "k.v">>,
      <<"uvm_order_priority_queue", "tb", "ordered_priority_queue_wrapper.vhd">>,
      <<"uvm_order_priority_queue", "rtl_overrides", "o.v">>,
      <<"packet_scheduler", "docs", "m.vhd">>,
      <<"packet_scheduler", "rtl", "workbench", "p.vhd">>,
      <<"packet_scheduler", "rtl", ".vhd">> }

DiscEntries ==
    {[path |-> p, kind |-> "file", data |-> <<>>] : p \in DiscFiles}
    \cup {[path |-> <<"packet_scheduler", "rtl", "n.vhd">>, kind |-> "dir", data |-> <<>>]}

\* The listings of at most n entries, each enumerated from the last path to
\* the first; the second discovery enumerates them from first to last.
RECURSIVE Listings(_)
Listings(n) ==
    IF n = 0 THEN {<<>>}
    ELSE LET shorter == Listings(n - 1)
             longest == {t \in shorter : Len(t) = n - 1}
             next(t) == {e \in DiscEntries :
                           t = <<>> \/ PathLess(e.path, t[Len(t)].path)}
         IN  shorter \cup UNION {{Append(t, e) : e \in next(t)} : t \in longest}

DiscTrees == Listings(MaxEntries)

FilePaths ==
    { Home \o <<"packet_scheduler", "rtl", "a.vhd">>,
      Home \o <<"packet_scheduler", "rtl", "A.VHD">>,
      Home \o <<"packet_scheduler", "rtl", "c.terp.vhd">>,
      Home \o <<"packet_scheduler", "rtl", "b.sv">>,
      Home \o <<"packet_scheduler", "rtl", ".vhd">>,
      Home \o <<"packet_scheduler", "rtl", "ordered_priority_queue_top.vhd">>,
      Home \o <<"packet_scheduler", "tb", "a.vhd">>,
      Home \o <<"packet_scheduler", "uvm", "a.vhd">>,
      Home \o <<"uvm_order_priority_queue", "tb", "a.vhd">>,
      Home \o <<"uvm_order_priority_queue", "rtl_overrides", "a.vhd">> }

\* A header whose field `late` (0: none) stands on line latePos and whose
\* field `missing` (0: none) is left out; the other fields follow line 1.
HeaderData(delim, missing, late, latePos) ==
    LET early(k) == IF k = missing \/ k = late THEN <<>>
                    ELSE Line("-- " \o HeaderFields[k] \o " x")
        nEarly == Cardinality({k \in 1..4 : k # missing /\ k # late})
    IN  Line(IF delim THEN Delimiter ELSE "--")
        \o early(1) \o early(2) \o early(3) \o early(4)
        \o Repeat(Line("--"), latePos - 2 - nEarly)
        \o (IF late = 0 THEN <<>> ELSE Line("-- " \o HeaderFields[late] \o " x"))
        \o Line("-- end")

HeaderDatas ==
    {HeaderData(d, m, l, p) :
        d \in BOOLEAN, m \in 0..4, l \in 0..4, p \in {HeadLines, HeadLines + 1}}

\* Annotations on line 1 and a process declaration dist lines below.
DocData(hasName, hasBrief, dist) ==
    Bytes(IF hasName THEN "-- @name n " ELSE "")
    \o Line(IF hasBrief THEN "-- @brief b" ELSE "--")
    \o Repeat(<<LF>>, dist - 1)
    \o Line("  proc_a : process (clk)")

DocDatas ==
    {DocData(n, b, d) :
        n \in BOOLEAN, b \in BOOLEAN,
        d \in {1, lookback_lines - 1, lookback_lines, lookback_lines + 1}}
    \cup { Line("proc_a : process -- @name n -- @brief b"),
           Line("-- @name n") \o Line("-- @brief b")
               \o Line("proc_a : process") \o Line("PROC_B: Process") }

ByteDatas ==
    UNION {[1..n -> {CR, LF, 32, 120, 255}] : n \in 0..MaxBytes}

FileInputs ==
    {[path |-> p, data |-> d] : p \in FilePaths, d \in HeaderDatas \cup DocDatas \cup ByteDatas}

---------------------------------------------------------------------------
(* Specifications.                                                         *)

\* A whole run of main().
Init ==
    /\ repo_root \in {Home, <<"work", "mu3e-ip-cores">>}
    /\ tree \in MainTrees
    /\ pc = "start"
    /\ targets = <<>>
    /\ idx = 0
    /\ errs = <<>>
    /\ reads = <<>>
    /\ stdout = <<>>
    /\ stderr = <<>>
    /\ exit = -1
    /\ file = NoFile
    /\ res = NoRes

Next ==
    \/ main_no_targets
    \/ main_discover
    \/ main_check_text
    \/ main_check_undecodable
    \/ main_fail
    \/ main_pass

Spec == Init /\ [][Next]_vars

\* _iter_targets over trees that exercise every rule of the path filter.
InitDiscover ==
    /\ repo_root \in DiscRoots
    /\ tree \in DiscTrees
    /\ pc = "d_start"
    /\ targets = <<>>
    /\ idx = 0
    /\ errs = <<>>
    /\ reads = <<>>
    /\ stdout = <<>>
    /\ stderr = <<>>
    /\ exit = -1
    /\ file = NoFile
    /\ res = <<>>

NextDiscover == discover \/ rediscover

SpecDiscover == InitDiscover /\ [][NextDiscover]_vars

\* The per-file checks over one file.
InitFile ==
    /\ repo_root = Home
    /\ tree = <<>>
    /\ pc = "f_start"
    /\ targets = <<>>
    /\ idx = 0
    /\ errs = <<>>
    /\ reads = <<>>
    /\ stdout = <<>>
    /\ stderr = <<>>
    /\ exit = -1
    /\ file \in FileInputs
    /\ res = NoRes

NextFile ==
    \/ file_newline
    \/ file_decode
    \/ file_decode_error
    \/ file_trailing_whitespace
    \/ file_vhdl_header
    \/ file_vhdl_proc_doc

SpecFile == InitFile /\ [][NextFile]_vars

---------------------------------------------------------------------------
(* Properties of a whole run (Spec).                                       *)

\* The check a finding comes from, by its message: 1 line ending,
\* 2 decoding, 3 trailing white space, 4 header, 5 process documentation.
CheckRank(msg) ==
    IF msg \in {MsgCrlf, MsgNoNewline} THEN 1
    ELSE IF msg = MsgNotUtf8 THEN 2
    ELSE IF msg = MsgTrailing THEN 3
    ELSE IF StartsWith(msg, "Missing ") THEN 4
    ELSE 5

\* What one target contributes, computed from its bytes alone.
FileFindings(p) ==
    LET data == ReadBytes(repo_root, tree, p)
    IN  IF DecodeFails(data) THEN UndecodableFindings(p, data) ELSE TextFindings(p, data)

\* The findings collected for one path, in the order collected.
FindingsOf(p) == LET mine(e) == e.path = p IN SelectSeq(errs, mine)

\* The position of a path in the target list.
TargetIndex(p) == CHOOSE k \in 1..Len(targets) : targets[k] = p

\* C1: a finished run has exit status 2, 1 or 0.  It is 2 exactly if
\* discovery returned no targets, and then no file was read, no finding
\* was produced and PASS was not printed.  Otherwise it is 1 exactly if
\* some target has a finding, and otherwise 0 with the success line
\* giving the number of discovered targets.
C1_ExitStatus ==
    /\ pc # "done" => exit = -1
    /\ pc = "done" =>
        /\ exit \in {0, 1, 2}
        /\ exit = 2 <=> iter_targets(repo_root, tree) = <<>>
        /\ exit = 2 => reads = <<>> /\ errs = <<>> /\ stdout = <<>>
        /\ exit # 2 =>
            /\ targets = iter_targets(repo_root, tree)
            /\ reads = targets
            /\ exit = 1 <=> \E k \in 1..Len(targets) : FileFindings(targets[k]) # <<>>
            /\ exit = 1 <=> Len(errs) > 0
        /\ exit = 1 => stdout = <<>>
        /\ exit = 0 => stdout = <<PassLine(Len(targets))>> /\ stderr = <<>>

\* A run that ends with the configuration error although files exist.
C1_Witness == pc = "done" /\ exit = 2 /\ Len(tree) >= 2

\* C2: the failure report lists the first min(L, 200) findings in the
\* order of the findings sequence, and ends with "... and K more",
\* K = L - 200, exactly if L > 200.  The findings sequence itself holds
\* every finding of every target, whatever the cap.
C2_ReportCap ==
    (pc = "done" /\ exit = 1) =>
        LET L == Len(errs)
            shown == IF L < ReportCap THEN L ELSE ReportCap
            isMore(l) == StartsWith(l, "... and ")
        IN  /\ L > 0
            /\ stderr[1] = "opq_lint: FAIL\n"
            /\ \A i \in 1..shown : stderr[1 + i] = Render(errs[i])
            /\ L > ReportCap =>
                /\ Len(stderr) = shown + 2
                /\ stderr[shown + 2] = "... and " \o IntStr(L - ReportCap) \o " more"
            /\ L <= ReportCap =>
                /\ Len(stderr) = shown + 1
                /\ \A i \in 1..Len(stderr) : ~isMore(stderr[i])
            /\ \A k \in 1..Len(targets) : FindingsOf(targets[k]) = FileFindings(targets[k])

\* A failed run with more findings than the report lists.
C2_Witness == pc = "done" /\ exit = 1 /\ Len(errs) > ReportCap + 1

\* The sort key of a finding: target, check, and the line for the checks
\* that scan line by line.
FindingKey(e) ==
    LET r == CheckRank(e.msg)
    IN  <<TargetIndex(e.path), r, IF r \in {3, 5} THEN e.line ELSE 0>>

KeyLeq(a, b) ==
    \/ a[1] < b[1]
    \/ a[1] = b[1] /\ a[2] < b[2]
    \/ a[1] = b[1] /\ a[2] = b[2] /\ a[3] <= b[3]

\* C3: in the findings sequence, findings are grouped by file in discovery
\* order; within a file they follow the check order line ending, decoding,
\* trailing white space, header, process documentation; within a
\* line-based check the line numbers do not decrease.
C3_FindingOrder ==
    /\ \A i \in 1..Len(errs) : errs[i].path \in Range(targets)
    /\ \A i \in 1..(Len(errs) - 1) : KeyLeq(FindingKey(errs[i]), FindingKey(errs[i + 1]))

\* Findings of two files, one of them with findings of a line-based check
\* on different lines and findings of three checks.
C3_Witness ==
    /\ pc = "done"
    /\ \E i, j \in 1..Len(errs) : errs[i].path # errs[j].path
    /\ \E i, j \in 1..Len(errs) :
          /\ errs[i].path = errs[j].path
          /\ CheckRank(errs[i].msg) = 3 /\ CheckRank(errs[j].msg) = 3
          /\ errs[i].line < errs[j].line
    /\ \E i, j \in 1..Len(errs) :
          /\ errs[i].path = errs[j].path
          /\ CheckRank(errs[i].msg) = 4 /\ CheckRank(errs[j].msg) = 5

\* C4: a target whose bytes are not UTF-8 contributes the findings of the
\* line-ending check and exactly one decoding finding at line 1, and no
\* finding of a text-based check; every later target is still read and
\* fully checked, and the run ends with exit status 1.
C4_DecodeErrorIsLocal ==
    (pc = "done" /\ exit # 2) =>
        \A k \in 1..Len(targets) :
            LET p == targets[k]
                data == ReadBytes(repo_root, tree, p)
                mine == FindingsOf(p)
                lineEnding(e) == CheckRank(e.msg) = 1
            IN  DecodeFails(data) =>
                    /\ Cardinality({i \in 1..Len(mine) : mine[i].msg = MsgNotUtf8}) = 1
                    /\ \A i \in 1..Len(mine) : mine[i].msg = MsgNotUtf8 => mine[i].line = 1
                    /\ SelectSeq(mine, lineEnding) = check_newline_and_crlf(p, data)
                    /\ \A i \in 1..Len(mine) : CheckRank(mine[i].msg) <= 2
                    /\ exit = 1
                    /\ \A j \in (k + 1)..Len(targets) :
                          /\ j <= Len(reads) /\ reads[j] = targets[j]
                          /\ FindingsOf(targets[j]) = FileFindings(targets[j])

\* A finished run in which a target that does not decode is followed by a
\* target with a finding of a text-based check.
C4_Witness ==
    /\ pc = "done"
    /\ \E k \in 1..Len(targets) :
          /\ DecodeFails(ReadBytes(repo_root, tree, targets[k]))
          /\ \E i \in 1..Len(errs) :
                /\ TargetIndex(errs[i].path) > k
                /\ CheckRank(errs[i].msg) >= 3

---------------------------------------------------------------------------
(* Properties of discovery (SpecDiscover).                                 *)

Listed == pc \in {"listed", "relisted"}

\* C5 as stated: the list holds each path once, is sorted by the full path
\* string, and a second discovery of the unchanged tree returns it again.
C5_SortedByPathString ==
    Listed =>
        /\ \A i, j \in 1..Len(targets) : i < j => targets[i] # targets[j]
        /\ \A i, j \in 1..Len(targets) :
              i < j => StrLess(PathStr(targets[i]), PathStr(targets[j]))
        /\ pc = "relisted" => res = targets

\* C5, amended: the list holds each path once, is sorted segment by
\* segment (the first differing segment decides, by code point; a path
\* precedes the paths it is a proper prefix of), and a second discovery of
\* the unchanged tree, enumerated in another order, returns the same list.
C5_SortedBySegments ==
    Listed =>
        /\ \A i, j \in 1..Len(targets) : i < j => targets[i] # targets[j]
        /\ \A i, j \in 1..Len(targets) : i < j => PathLess(targets[i], targets[j])
        /\ pc = "relisted" => res = targets

\* Two targets that the tree lists in the other order and that the full
\* path strings order differently from the segments.
C5_Witness ==
    /\ pc = "relisted"
    /\ Len(targets) >= 2
    /\ \E i, j \in 1..Len(tree) :
          /\ i < j
          /\ repo_root \o tree[i].path = targets[2]
          /\ repo_root \o tree[j].path = targets[1]
    /\ StrLess(PathStr(targets[2]), PathStr(targets[1]))

\* The segment rules of the path filter.
IgnoredSegment(seg) ==
    \/ seg \in {"trash_bin", "work", "rtl_gen_split", "rtl_gen_monolithic",
                "uvm_patched", ".git", ".qsys_edit"}
    \/ StartsWith(seg, "work_")

\* The rule for the generated monolithic outputs in test-bench folders.
GeneratedTbOutput(p) ==
    /\ "packet_scheduler" \in Range(p)
    /\ "tb" \in Range(p)
    /\ Name(p) \in {"ordered_priority_queue.vhd", "ordered_priority_queue_wrapper.vhd"}

\* The name ends, letter case ignored, with .vhd, .sv or .v.
AllowedExtension(name) ==
    \E ext \in {".vhd", ".sv", ".v"} : EndsWith(Lower(name), ext)

UnderSomeRoot(p) ==
    \E k \in 1..Len(Roots(repo_root)) :
        IsPrefix(Roots(repo_root)[k], p) /\ p # Roots(repo_root)[k]

\* C10: a regular file under a root is a target exactly if its name ends,
\* letter case ignored, with an allowed extension and no rule of the path
\* filter matches its path; the targets are such files only; and no target
\* has a segment trash_bin, work, rtl_gen_split, rtl_gen_monolithic,
\* uvm_patched, .git or .qsys_edit, or one beginning with work_, anywhere
\* in its path.
C10_ExclusionPrecedence ==
    Listed =>
        /\ \A k \in 1..Len(tree) :
              LET p == repo_root \o tree[k].path
              IN  (tree[k].kind = "file" /\ UnderSomeRoot(p)) =>
                      (p \in Range(targets) <=>
                          /\ AllowedExtension(Name(p))
                          /\ \A i \in 1..Len(p) : ~IgnoredSegment(p[i])
                          /\ ~GeneratedTbOutput(p))
        /\ \A i \in 1..Len(targets) :
              /\ \E k \in 1..Len(tree) :
                    /\ repo_root \o tree[k].path = targets[i]
                    /\ tree[k].kind = "file"
              /\ UnderSomeRoot(targets[i])
              /\ \A n \in 1..Len(targets[i]) : ~IgnoredSegment(targets[i][n])

\* A tree with a target beside a file of an allowed extension that a
\* directory named work excludes.
C10_Witness ==
    /\ pc = "listed"
    /\ Len(targets) >= 1
    /\ \E k \in 1..Len(tree) :
          /\ tree[k].kind = "file"
          /\ AllowedExtension(Name(tree[k].path))
          /\ "work" \in Range(tree[k].path)
          /\ UnderSomeRoot(repo_root \o tree[k].path)

---------------------------------------------------------------------------
(* Properties of the per-file checks (SpecFile).                           *)

\* The name has the suffix .vhd, letter case ignored.
IsVhdlName(name) == EndsWith(Lower(name), ".vhd") /\ Len(name) > 4

\* The path runs through packet_scheduler/tb, packet_scheduler/uvm or
\* uvm_order_priority_queue/tb.
InVerificationFolder(p) ==
    \E i \in 1..(Len(p) - 2) :
        <<p[i], p[i + 1]>> \in { <<"packet_scheduler", "tb">>,
                                 <<"packet_scheduler", "uvm">>,
                                 <<"uvm_order_priority_queue", "tb">> }

\* The findings of a list that carry the line number n.
CountAtLine(es, n) == Cardinality({i \in 1..Len(es) : es[i].line = n})

\* Some line numbered lo..hi contains the literal.
OccursInLines(lines, lo, hi, literal) ==
    \E k \in lo..hi : k >= 1 /\ k <= Len(lines) /\ Contains(lines[k], literal)

\* C6 as stated: for a process declaration matched at line N, if "-- @name"
\* and "-- @brief" both occur in the lines N-400 to N-1 the check has no
\* finding for the declaration; if neither occurs there it has exactly two
\* findings, both with line number N.
C6_LookbackPreceding400 ==
    (pc = "f_done" /\ res.ok /\ IsVhdlName(Name(file.path))
        /\ ~InVerificationFolder(file.path)) =>
        LET lines == SplitLines(Decode(file.data))
            tagName == Bytes("-- @name")
            tagBrief == Bytes("-- @brief")
        IN  \A n \in 1..Len(lines) :
                ProcMatch(lines[n]).matched =>
                    LET name == OccursInLines(lines, n - lookback_lines, n - 1, tagName)
                        brief == OccursInLines(lines, n - lookback_lines, n - 1, tagBrief)
                    IN  /\ (name /\ brief) => CountAtLine(res.doc, n) = 0
                        /\ (~name /\ ~brief) => CountAtLine(res.doc, n) = 2

\* The four header fields the first HeadLines lines do not contain.
MissingFields(lines) ==
    {k \in 1..4 : ~OccursInLines(lines, 1, HeadLines, Bytes(HeaderFields[k]))}

\* The header check is meant for the file: a .vhd name outside the
\* verification folders that is not the generated top-level file.
HeaderChecked(p) ==
    /\ IsVhdlName(Name(p))
    /\ ~InVerificationFolder(p)
    /\ Name(p) # "ordered_priority_queue_top.vhd"

\* C7: for a .vhd file outside the excluded paths and off the allow-list
\* whose first line is the delimiter line, the header check has no finding
\* if each of the four fields occurs in the first 80 lines, and exactly one
\* finding, at line 1 and for that field, if exactly one of them does not.
C7_HeaderFields ==
    (pc \in {"f_hdr", "f_done"} /\ res.ok /\ HeaderChecked(file.path)) =>
        LET lines == SplitLines(Decode(file.data))
            missing == MissingFields(lines)
        IN  (Len(lines) >= 1 /\ lines[1] = Bytes(Delimiter)) =>
                /\ missing = {} => res.hdr = <<>>
                /\ \A k \in 1..4 :
                      missing = {k} =>
                          res.hdr = <<LintError(file.path, 1, MsgField(HeaderFields[k]))>>

\* A header whose only missing field stands on line 81, reported once.
C7_Witness ==
    /\ pc = "f_done" /\ res.ok /\ HeaderChecked(file.path)
    /\ Len(res.hdr) = 1
    /\ LET text == Decode(file.data)
           lines == SplitLines(text)
       IN  /\ Len(lines) >= 1 /\ lines[1] = Bytes(Delimiter)
           /\ Cardinality(MissingFields(lines)) = 1
           /\ \A k \in 1..4 : Contains(text, Bytes(HeaderFields[k]))

\* C8 as stated: a file with a carriage return byte gets exactly one
\* finding of the line-ending check, at line 1, whatever else it holds.
C8_ExactlyOneFinding ==
    (pc # "f_start" /\ CR \in Range(file.data)) =>
        Len(res.nl) = 1 /\ res.nl[1].line = 1

\* C8, amended: a file with a carriage return byte gets exactly one
\* carriage-return finding, at line 1, however many such bytes it holds;
\* the check's only other finding is the missing-newline finding, also at
\* line 1, present exactly if the last byte is not a line feed.
C8_OneCarriageReturnFinding ==
    (pc # "f_start" /\ CR \in Range(file.data)) =>
        /\ res.nl[1] = LintError(file.path, 1, MsgCrlf)
        /\ Cardinality({i \in 1..Len(res.nl) : res.nl[i].msg = MsgCrlf}) = 1
        /\ \A i \in 1..Len(res.nl) : res.nl[i].line = 1
        /\ file.data[Len(file.data)] = LF => Len(res.nl) = 1
        /\ file.data[Len(file.data)] # LF =>
              Len(res.nl) = 2 /\ res.nl[2].msg = MsgNoNewline

\* Two carriage returns in a file that ends with a line feed: one finding.
C8_Witness ==
    /\ pc = "f_done"
    /\ Cardinality({i \in 1..Len(file.data) : file.data[i] = CR}) >= 2
    /\ file.data[Len(file.data)] = LF
    /\ Len(res.nl) = 1

\* A text both checks have a finding for when they run: it does not start
\* with the delimiter and declares a process without any "-- @name".
Flagged(text) ==
    /\ ~StartsWith(text, Bytes(Delimiter))
    /\ ~Contains(text, Bytes("-- @name"))
    /\ LET lines == SplitLines(text)
       IN  \E n \in 1..Len(lines) : ProcMatch(lines[n]).matched

\* C9 as stated: the process-documentation check is skipped exactly if the
\* header check is skipped.
C9_SameSkipRules ==
    (pc = "f_done" /\ res.ok) =>
        /\ proc_doc_skipped(file.path) <=> header_skipped(file.path)
        /\ Flagged(Decode(file.data)) => (res.doc = <<>> <=> res.hdr = <<>>)

\* C9, amended: both checks are skipped for a file that has not the .vhd
\* suffix or lies in one of the three verification folders, and on every
\* other file the process-documentation check runs; the header check is
\* skipped in addition, and it alone, for the generated file name
\* ordered_priority_queue_top.vhd.
C9_SkipRulesButAllowList ==
    (pc = "f_done" /\ res.ok) =>
        LET p == file.path
            common == ~IsVhdlName(Name(p)) \/ InVerificationFolder(p)
        IN  /\ proc_doc_skipped(p) <=> common
            /\ header_skipped(p) <=> (common \/ Name(p) = "ordered_priority_queue_top.vhd")
            /\ common => res.doc = <<>> /\ res.hdr = <<>>
            /\ (~common /\ Flagged(Decode(file.data))) =>
                  /\ res.doc # <<>>
                  /\ res.hdr = <<>> <=> Name(p) = "ordered_priority_queue_top.vhd"

\* The generated top-level file with an undocumented process: no header
\* finding, and findings of the process-documentation check.
C9_Witness ==
    /\ pc = "f_done" /\ res.ok
    /\ Name(file.path) = "ordered_priority_queue_top.vhd"
    /\ res.hdr = <<>>
    /\ res.doc # <<>>
    /\ Flagged(Decode(file.data))

=============================================================================
